---------------------------- MODULE Spec2Model ----------------------------
(***************************************************************************)
(* Model of bench.go: a CSV-driven query benchmark.  processCSV (the       *)
(* dispatcher goroutine) starts numWorkers worker goroutines, routes each  *)
(* CSV record to one of them by the FNV-1a hash of its hostname, closes    *)
(* the task channels at end of file, waits for the workers and sends on    *)
(* the done channel.  main (the collector) receives latency samples on the *)
(* shared results channel, keeps running min/max/total, and after done     *)
(* sorts the samples, computes the median and prints the summary.          *)
(* All channels are unbuffered: a send and its receive are one step.       *)
(***************************************************************************)
EXTENDS Integers, Sequences, FiniteSets, Bags, TLC

(* ----------------------------- bounds --------------------------------- *)

\* Largest number of CSV rows after the header.
MaxRecords == 3

\* Largest value of the -workers flag explored.
MaxWorkers == 2

\* Largest number of samples handed to the sort-and-median step on its own.
MaxSamples == 4

(* --------------------------- input domain ------------------------------ *)

\* Hostnames as byte strings: "a", "b", "ab".  Under FNV-1a "a" and "b" hash
\* at or above 2^31 and "ab" below it; modulo 2, "a" and "ab" collide and "b"
\* differs.
Keys == { <<97>>, <<98>>, <<97, 98>> }

\* The hostname column title of the header row ("hostname").
HeaderKey == <<104, 111, 115, 116, 110, 97, 109, 101>>

\* A row that csv.Reader.Read rejects with a parse error.
BadRow == [ok |-> FALSE, host |-> <<>>, start |-> 0, end |-> 0]

\* Rows of the input after the header, before their range columns are filled.
Rows == { [ok |-> TRUE, host |-> k, start |-> 0, end |-> 0] : k \in Keys } \cup { BadRow }

\* First rows of the input.
HeaderRows == { [ok |-> TRUE, host |-> HeaderKey, start |-> 0, end |-> 0], BadRow }

\* The range columns are opaque strings; numbers stand for them, and every
\* row gets its own, so that two rows of one host differ in their ranges.
StampRanges(r) ==
    [i \in 1 .. Len(r) |-> [r[i] EXCEPT !.start = IF r[i].ok THEN i ELSE 0,
                                         !.end = IF r[i].ok THEN i + 1 ELSE 0]]

\* Elapsed times, in microseconds, a successful query may take.
Latencies == { 900, 1201, 2500 }

\* Widths of Go's int on the platforms the program builds for.
IntWidths == { 32, 64 }

\* All sequences over S of length at most n.
RECURSIVE SeqsUpTo(_, _)
SeqsUpTo(S, n) ==
    IF n = 0 THEN { <<>> }
    ELSE LET shorter == SeqsUpTo(S, n - 1)
         IN  shorter \cup { Append(s, x) : s \in { t \in shorter : Len(t) = n - 1 }, x \in S }

\* All CSV inputs: empty, or a header followed by at most MaxRecords rows.
Inputs ==
    { <<>> } \cup { <<h>> \o StampRanges(r) : h \in HeaderRows, r \in SeqsUpTo(Rows, MaxRecords) }

(* ------------------------------ state ---------------------------------- *)

VARIABLES
    input,         \* the CSV rows behind the io.Reader f, header first
    numWorkers,    \* the -workers flag
    intBits,       \* width of Go's int in this build
    fate,          \* "running", or how the process died: "fatal", "panic", "deadlock"
    dispPc,        \* processCSV: "spawn","header","read","send","close","wait","signal","exit"
    spawned,       \* processCSV: workers started so far (loop variable of line 77)
    pos,           \* processCSV: rows consumed from the reader so far
    chosenWorker,  \* processCSV: index the current task goes to
    closeIdx,      \* processCSV: queues closed so far (loop variable of line 121)
    closed,        \* closed[w]: workers[w] has been closed
    wg,            \* the sync.WaitGroup counter
    pc,            \* pc[w]: worker w is "unborn","recv","query","send","done"
    q,             \* q[w]: the task worker w holds (its loop variable q; NoTask between
                   \* iterations)
    cur,           \* history: cur[w] = input position of the row q[w] was built from
    delta,         \* delta[w]: the latency worker w is about to publish (0 otherwise)
    mainPc,        \* main: "first","loop","after","reported"
    queryTimes, minQueryTime, maxQueryTime, medianQueryTime, totalQueryTime,
    printed,       \* the summary block main printed (<<>> before that)
    executed,      \* history: executed[w] = input positions worker w queried, in order
    outcome,       \* history: outcome[i] = what row i's query returned: status "none"
                   \* (no query yet), "fail" or "ok", and the latency when "ok"
    doneCount,     \* history: number of sends on done
    errLog         \* history: bag of "[ERROR] Failed retrieving row" log lines

dispVars == <<dispPc, spawned, pos, chosenWorker, closeIdx>>
statVars == <<queryTimes, minQueryTime, maxQueryTime, medianQueryTime, totalQueryTime>>
confVars == <<input, numWorkers, intBits>>

vars == <<input, numWorkers, intBits, fate, dispPc, spawned, pos, chosenWorker, closeIdx,
          closed, wg, pc, q, cur, delta, mainPc, queryTimes, minQueryTime, maxQueryTime,
          medianQueryTime, totalQueryTime, printed, executed, outcome, doneCount, errLog>>

Workers == 0 .. (numWorkers - 1)

\* Lines 29-33 and 111-115: the task built from a record.
Task(record) == [hostname |-> record.host, start |-> record.start, end |-> record.end]

\* The zero value of task.
NoTask == [hostname |-> <<>>, start |-> 0, end |-> 0]


(* ------------------------- hash/fnv, 32-bit FNV-1a ---------------------- *)
\* A 32-bit value is kept as <<hi, lo>>, its two 16-bit halves, so that no
\* intermediate product leaves the range of the checker's integers.

\* FNV-1a offset basis 0x811C9DC5, as halves.
FnvOffsetHi == 33052
FnvOffsetLo == 40389

\* The low part of the FNV prime 0x01000193 = 2^24 + 403.
FnvPrimeLo == 403

\* Exclusive or of two n-bit numbers.
RECURSIVE BitXor(_, _, _)
BitXor(a, b, n) ==
    IF n = 0 THEN 0
    ELSE (((a % 2) + (b % 2)) % 2) + 2 * BitXor(a \div 2, b \div 2, n - 1)

\* h * 0x01000193 modulo 2^32.
FnvMul(h) ==
    LET hi == h[1]
        lo == h[2]
        p  == FnvPrimeLo * lo
    IN  << (FnvPrimeLo * hi + (p \div 65536) + (lo % 256) * 256) % 65536, p % 65536 >>

\* One round of fnv.New32a().Write: xor the byte in, then multiply.
FnvStep(h, byte) == FnvMul(<< h[1], (h[2] \div 256) * 256 + BitXor(h[2] % 256, byte, 8) >>)

\* h.Write(bytes) from the state h.
RECURSIVE FnvWrite(_, _)
FnvWrite(h, bytes) ==
    IF bytes = <<>> THEN h
    ELSE FnvWrite(FnvStep(h, Head(bytes)), Tail(bytes))

\* fnv.New32a(); h.Write([]byte(hostname)); h.Sum32()
Sum32(hostname) == FnvWrite(<<FnvOffsetHi, FnvOffsetLo>>, hostname)

\* The unsigned value of h modulo n.
UMod(h, n) == ((h[1] % n) * (65536 % n) + h[2]) % n

\* int(h) % n as Go computes it: int(h) is h itself when int is 64 bits wide
\* and h - 2^32 for h >= 2^31 when int is 32 bits wide; % truncates toward
\* zero, so a negative dividend gives a remainder in -(n-1)..0.
IntMod(h, n, bits) ==
    IF bits = 32 /\ h[1] >= 32768
    THEN 0 - (((((65536 % n) * (65536 % n)) % n) + n - UMod(h, n)) % n)
    ELSE UMod(h, n)

\* ChosenWorker with the wrong column: the worker is picked from the range
\* start instead of the hostname.
ChosenWorkerByStart(record, n, bits) == record.start % n

\* Lines 102-109: hostname := record[csvHostnameField]; ...;
\* chosenWorker := int(h.Sum32()) % numWorkers
ChosenWorker(record, n, bits) == IntMod(Sum32(record.host), n, bits)

(* --------------------------- sort and median ---------------------------- *)

\* s with x inserted before the first element greater than x (s ascending).
RECURSIVE Insert(_, _)
Insert(s, x) ==
    IF s = <<>> THEN <<x>>
    ELSE IF x < Head(s) THEN <<x>> \o s
    ELSE <<Head(s)>> \o Insert(Tail(s), x)

\* SortAsc left out: the samples stay in the order they were collected.
SortAscSkipped(s) == s

\* sort.Slice(queryTimes, less) with less(i, j) = queryTimes[i] < queryTimes[j].
RECURSIVE SortAsc(_)
SortAsc(s) == IF s = <<>> THEN <<>> ELSE Insert(SortAsc(Tail(s)), Head(s))

\* Median without the even case: always the upper central value.
MedianUpper(qt) == qt[Len(qt) \div 2 + 1]

\* Lines 225-230 on the sorted slice qt (Go indexes from 0, sequences from 1).
Median(qt) ==
    LET n == Len(qt)
    IN  IF n % 2 = 0 THEN (qt[n \div 2] + qt[n \div 2 + 1]) \div 2
        ELSE qt[n \div 2 + 1]

\* Lines 232-238: the summary block, times in milliseconds.
Summary(qt, total, min, max, median) ==
    [ count  |-> Len(qt),
      total  |-> total \div 1000,
      min    |-> min \div 1000,
      max    |-> max \div 1000,
      mean   |-> (total \div Len(qt)) \div 1000,
      median |-> median \div 1000 ]

\* NextMin with the sample compared against the maximum.
NextMinAgainstMax(min, max, r) == IF r < max THEN r ELSE min

\* Lines 208-212: the running minimum after a further sample r.
NextMin(min, max, r) == IF r < min THEN r ELSE min

\* NextMax without the test of line 210: every sample that is no new minimum
\* becomes the maximum.
NextMaxNoTest(min, max, r) == IF r < min THEN max ELSE r

\* Lines 208-212: the running maximum after a further sample r.
NextMax(min, max, r) == IF r < min THEN max ELSE IF r > max THEN r ELSE max

(* ------------------------------- Init ----------------------------------- *)

\* main up to line 190: flags parsed (workers >= 1, line 158), results and
\* done made, processCSV started; main is about to receive on results.
Init ==
    /\ input \in Inputs
    /\ numWorkers \in 1 .. MaxWorkers
    /\ intBits \in IntWidths
    /\ fate = "running"
    /\ dispPc = "spawn"
    /\ spawned = 0
    /\ pos = 0
    /\ chosenWorker = 0
    /\ closeIdx = 0
    /\ closed = [w \in Workers |-> FALSE]
    /\ wg = 0
    /\ pc = [w \in Workers |-> "unborn"]
    /\ q = [w \in Workers |-> NoTask]
    /\ cur = [w \in Workers |-> 0]
    /\ delta = [w \in Workers |-> 0]
    /\ mainPc = "first"
    /\ queryTimes = <<>>
    /\ minQueryTime = 0
    /\ maxQueryTime = 0
    /\ medianQueryTime = 0
    /\ totalQueryTime = 0
    /\ printed = <<>>
    /\ executed = [w \in Workers |-> <<>>]
    /\ outcome = [i \in 1 .. Len(input) |-> [status |-> "none", latency |-> 0]]
    /\ doneCount = 0
    /\ errLog = EmptyBag

\* The process is alive: no log.Fatalf, panic or runtime abort, and main has
\* not returned.
Alive == fate = "running" /\ mainPc # "reported"

(* ---------------------------- processCSV -------------------------------- *)

\* Lines 77-85, one iteration: make the task channel, wg.Add(1), start the
\* goroutine, which enters worker() and waits on its channel.
Spawn ==
    /\ Alive /\ dispPc = "spawn"
    /\ pc' = [pc EXCEPT ![spawned] = "recv"]
    /\ wg' = wg + 1
    /\ spawned' = spawned + 1
    /\ dispPc' = IF spawned + 1 = numWorkers THEN "header" ELSE "spawn"
    /\ UNCHANGED <<confVars, fate, pos, chosenWorker, closeIdx, closed, q, cur, delta, mainPc,
                   statVars, printed, executed, outcome, doneCount, errLog>>

\* Lines 88-91: read and drop the header; any error, end of file included,
\* is fatal.
ReadHeader ==
    /\ Alive /\ dispPc = "header"
    /\ IF Len(input) = 0 \/ ~input[1].ok
       THEN fate' = "fatal" /\ UNCHANGED <<dispPc, pos>>
       ELSE fate' = fate /\ dispPc' = "read" /\ pos' = 1
    /\ UNCHANGED <<confVars, spawned, chosenWorker, closeIdx, closed, wg, pc, q, cur, delta,
                   mainPc, statVars, printed, executed, outcome, doneCount, errLog>>

\* ReadRecord that logs a parse error and goes on to the next row instead of
\* log.Fatalf.
ReadRecordSkipBad ==
    /\ Alive /\ dispPc = "read"
    /\ IF pos = Len(input)
       THEN /\ dispPc' = "close"
            /\ UNCHANGED <<fate, pos, chosenWorker>>
       ELSE IF ~input[pos + 1].ok
       THEN /\ pos' = pos + 1
            /\ UNCHANGED <<fate, dispPc, chosenWorker>>
       ELSE LET c == ChosenWorker(input[pos + 1], numWorkers, intBits)
            IN  /\ pos' = pos + 1
                /\ chosenWorker' = c
                /\ IF c \in Workers
                   THEN dispPc' = "send" /\ fate' = fate
                   ELSE dispPc' = dispPc /\ fate' = "panic"
    /\ UNCHANGED <<confVars, spawned, closeIdx, closed, wg, pc, q, cur, delta, mainPc,
                   statVars, printed, executed, outcome, doneCount, errLog>>

\* Lines 94-117 up to the send: read a record; end of file leaves the loop,
\* a parse error is fatal, otherwise the worker index is computed and the
\* channel workers[chosenWorker] is looked up (an index out of range panics).
ReadRecord ==
    /\ Alive /\ dispPc = "read"
    /\ IF pos = Len(input)
       THEN /\ dispPc' = "close"
            /\ UNCHANGED <<fate, pos, chosenWorker>>
       ELSE IF ~input[pos + 1].ok
       THEN /\ fate' = "fatal"
            /\ UNCHANGED <<dispPc, pos, chosenWorker>>
       ELSE LET c == ChosenWorker(input[pos + 1], numWorkers, intBits)
            IN  /\ pos' = pos + 1
                /\ chosenWorker' = c
                /\ IF c \in Workers
                   THEN dispPc' = "send" /\ fate' = fate
                   ELSE dispPc' = dispPc /\ fate' = "panic"
    /\ UNCHANGED <<confVars, spawned, closeIdx, closed, wg, pc, q, cur, delta, mainPc,
                   statVars, printed, executed, outcome, doneCount, errLog>>

\* Dispatch that hands a task over only while no worker is busy.
DispatchWhenAllIdle(w) ==
    /\ Alive /\ dispPc = "send" /\ chosenWorker = w
    /\ \A v \in Workers : pc[v] = "recv"
    /\ ~closed[w]
    /\ pc' = [pc EXCEPT ![w] = "query"]
    /\ q' = [q EXCEPT ![w] = Task(input[pos])]
    /\ cur' = [cur EXCEPT ![w] = pos]
    /\ executed' = [executed EXCEPT ![w] = Append(@, pos)]
    /\ dispPc' = "read"
    /\ UNCHANGED <<confVars, fate, spawned, pos, chosenWorker, closeIdx, closed, wg, delta,
                   mainPc, statVars, printed, outcome, doneCount, errLog>>

\* Dispatch with one task channel shared by all workers: whichever worker is
\* idle takes the task.
DispatchShared(w) ==
    /\ Alive /\ dispPc = "send"
    /\ pc[w] = "recv" /\ ~closed[w]
    /\ pc' = [pc EXCEPT ![w] = "query"]
    /\ q' = [q EXCEPT ![w] = Task(input[pos])]
    /\ cur' = [cur EXCEPT ![w] = pos]
    /\ executed' = [executed EXCEPT ![w] = Append(@, pos)]
    /\ dispPc' = "read"
    /\ UNCHANGED <<confVars, fate, spawned, pos, chosenWorker, closeIdx, closed, wg, delta,
                   mainPc, statVars, printed, outcome, doneCount, errLog>>

\* Line 117 with line 42: the unbuffered send workers[chosenWorker] <- t meets
\* the worker's receive; the worker starts the query for that task (line 47).
Dispatch(w) ==
    /\ Alive /\ dispPc = "send" /\ chosenWorker = w
    /\ pc[w] = "recv" /\ ~closed[w]
    /\ pc' = [pc EXCEPT ![w] = "query"]
    /\ q' = [q EXCEPT ![w] = Task(input[pos])]
    /\ cur' = [cur EXCEPT ![w] = pos]
    /\ executed' = [executed EXCEPT ![w] = Append(@, pos)]
    /\ dispPc' = "read"
    /\ UNCHANGED <<confVars, fate, spawned, pos, chosenWorker, closeIdx, closed, wg, delta,
                   mainPc, statVars, printed, outcome, doneCount, errLog>>

\* CloseQueue that closes workers[0] in every iteration.
CloseQueueFirst ==
    /\ Alive /\ dispPc = "close"
    /\ closed' = [closed EXCEPT ![0] = TRUE]
    /\ closeIdx' = closeIdx + 1
    /\ dispPc' = IF closeIdx + 1 = numWorkers THEN "wait" ELSE "close"
    /\ UNCHANGED <<confVars, fate, spawned, pos, chosenWorker, wg, pc, q, cur, delta, mainPc,
                   statVars, printed, executed, outcome, doneCount, errLog>>

\* Lines 121-123, one iteration: close(workers[w]).
CloseQueue ==
    /\ Alive /\ dispPc = "close"
    /\ closed' = [closed EXCEPT ![closeIdx] = TRUE]
    /\ closeIdx' = closeIdx + 1
    /\ dispPc' = IF closeIdx + 1 = numWorkers THEN "wait" ELSE "close"
    /\ UNCHANGED <<confVars, fate, spawned, pos, chosenWorker, wg, pc, q, cur, delta, mainPc,
                   statVars, printed, executed, outcome, doneCount, errLog>>

\* WaitWorkers without the wait: processCSV goes straight on to line 128.
WaitWorkersNoWait ==
    /\ Alive /\ dispPc = "wait"
    /\ dispPc' = "signal"
    /\ UNCHANGED <<confVars, fate, spawned, pos, chosenWorker, closeIdx, closed, wg, pc, q, cur,
                   delta, mainPc, statVars, printed, executed, outcome, doneCount, errLog>>

\* Line 127: wg.Wait() returns once the counter is zero.
WaitWorkers ==
    /\ Alive /\ dispPc = "wait"
    /\ wg = 0
    /\ dispPc' = "signal"
    /\ UNCHANGED <<confVars, fate, spawned, pos, chosenWorker, closeIdx, closed, wg, pc, q, cur,
                   delta, mainPc, statVars, printed, executed, outcome, doneCount, errLog>>

(* ------------------------------- worker --------------------------------- *)

\* QueryFail with return in place of continue: the worker gives up at the
\* first error.
QueryFailReturn(w) ==
    /\ Alive /\ pc[w] = "query"
    /\ outcome' = [outcome EXCEPT ![cur[w]] = [status |-> "fail", latency |-> 0]]
    /\ errLog' = errLog (+) SetToBag({ [msg |-> "Failed retrieving row", err |-> "error"] })
    /\ pc' = [pc EXCEPT ![w] = "done"]
    /\ q' = [q EXCEPT ![w] = NoTask]
    /\ cur' = [cur EXCEPT ![w] = 0]
    /\ wg' = wg - 1
    /\ UNCHANGED <<confVars, fate, dispVars, closed, delta, mainPc, statVars, printed,
                   executed, doneCount>>

\* QueryFail without the continue of line 57: the error is logged and the
\* elapsed time is published all the same.
QueryFailNoContinue(w) ==
    /\ Alive /\ pc[w] = "query"
    /\ outcome' = [outcome EXCEPT ![cur[w]] = [status |-> "fail", latency |-> 0]]
    /\ errLog' = errLog (+) SetToBag({ [msg |-> "Failed retrieving row", err |-> "error"] })
    /\ \E d \in Latencies : delta' = [delta EXCEPT ![w] = d]
    /\ pc' = [pc EXCEPT ![w] = "send"]
    /\ UNCHANGED <<q, cur, confVars, fate, dispVars, closed, wg, mainPc, statVars, printed,
                   executed, doneCount>>

\* Lines 55-58: QueryRow(...).Scan returns an error; it is logged and the loop
\* continues with the next receive.
QueryFail(w) ==
    /\ Alive /\ pc[w] = "query"
    /\ outcome' = [outcome EXCEPT ![cur[w]] = [status |-> "fail", latency |-> 0]]
    /\ errLog' = errLog (+) SetToBag({ [msg |-> "Failed retrieving row", err |-> "error"] })
    /\ pc' = [pc EXCEPT ![w] = "recv"]
    /\ q' = [q EXCEPT ![w] = NoTask]
    /\ cur' = [cur EXCEPT ![w] = 0]
    /\ UNCHANGED <<confVars, fate, dispVars, closed, wg, delta, mainPc, statVars, printed,
                   executed, doneCount>>

\* Lines 59-64: the query returns after d microseconds; the worker is about
\* to send the benchResult.
QueryOk(w, d) ==
    /\ Alive /\ pc[w] = "query"
    /\ outcome' = [outcome EXCEPT ![cur[w]] = [status |-> "ok", latency |-> d]]
    /\ delta' = [delta EXCEPT ![w] = d]
    /\ pc' = [pc EXCEPT ![w] = "send"]
    /\ UNCHANGED <<confVars, fate, dispVars, closed, wg, q, cur, mainPc, statVars, printed,
                   executed, doneCount, errLog>>

\* WorkerExit of a worker that gives up while its channel is still open.
WorkerExitEarly(w) ==
    /\ Alive /\ pc[w] = "recv"
    /\ pc' = [pc EXCEPT ![w] = "done"]
    /\ wg' = wg - 1
    /\ UNCHANGED <<confVars, fate, dispVars, closed, q, cur, delta, mainPc, statVars, printed,
                   executed, outcome, doneCount, errLog>>

\* Line 42 on a closed channel, then lines 67-68 and the deferred wg.Done()
\* of line 82: the range loop ends and the goroutine returns.
WorkerExit(w) ==
    /\ Alive /\ pc[w] = "recv" /\ closed[w]
    /\ pc' = [pc EXCEPT ![w] = "done"]
    /\ wg' = wg - 1
    /\ UNCHANGED <<confVars, fate, dispVars, closed, q, cur, delta, mainPc, statVars, printed,
                   executed, outcome, doneCount, errLog>>

(* -------------------------------- main ---------------------------------- *)

\* Line 66 with lines 195-200: the first sample initialises every statistic.
CollectFirst(w) ==
    /\ Alive /\ mainPc = "first" /\ pc[w] = "send"
    /\ queryTimes' = <<delta[w]>>
    /\ minQueryTime' = delta[w]
    /\ maxQueryTime' = delta[w]
    /\ medianQueryTime' = delta[w]
    /\ totalQueryTime' = delta[w]
    /\ mainPc' = "loop"
    /\ pc' = [pc EXCEPT ![w] = "recv"]
    /\ q' = [q EXCEPT ![w] = NoTask]
    /\ delta' = [delta EXCEPT ![w] = 0]
    /\ cur' = [cur EXCEPT ![w] = 0]
    /\ UNCHANGED <<confVars, fate, dispVars, closed, wg, printed, executed, outcome,
                   doneCount, errLog>>

\* Collect with a break that leaves the labelled loop after a sample.
CollectThenLeave(w) ==
    /\ Alive /\ mainPc = "loop" /\ pc[w] = "send"
    /\ queryTimes' = Append(queryTimes, delta[w])
    /\ totalQueryTime' = totalQueryTime + delta[w]
    /\ minQueryTime' = IF delta[w] < minQueryTime THEN delta[w] ELSE minQueryTime
    /\ maxQueryTime' = IF delta[w] > maxQueryTime THEN delta[w] ELSE maxQueryTime
    /\ mainPc' = "after"
    /\ pc' = [pc EXCEPT ![w] = "recv"]
    /\ q' = [q EXCEPT ![w] = NoTask]
    /\ delta' = [delta EXCEPT ![w] = 0]
    /\ cur' = [cur EXCEPT ![w] = 0]
    /\ UNCHANGED <<confVars, fate, dispVars, closed, wg, medianQueryTime,
                   printed, executed, outcome, doneCount, errLog>>

\* Line 66 with lines 205-212: a further sample.
Collect(w) ==
    /\ Alive /\ mainPc = "loop" /\ pc[w] = "send"
    /\ queryTimes' = Append(queryTimes, delta[w])
    /\ totalQueryTime' = totalQueryTime + delta[w]
    /\ minQueryTime' = NextMin(minQueryTime, maxQueryTime, delta[w])
    /\ maxQueryTime' = NextMax(minQueryTime, maxQueryTime, delta[w])
    /\ pc' = [pc EXCEPT ![w] = "recv"]
    /\ q' = [q EXCEPT ![w] = NoTask]
    /\ delta' = [delta EXCEPT ![w] = 0]
    /\ cur' = [cur EXCEPT ![w] = 0]
    /\ UNCHANGED <<confVars, fate, dispVars, closed, wg, mainPc, medianQueryTime,
                   printed, executed, outcome, doneCount, errLog>>

\* SignalDone without the wg.Wait() of line 127 before it.
SignalDoneNoWait ==
    /\ Alive /\ mainPc = "loop" /\ dispPc \in {"wait", "signal"}
    /\ mainPc' = "after"
    /\ dispPc' = "exit"
    /\ doneCount' = doneCount + 1
    /\ UNCHANGED <<confVars, fate, spawned, pos, chosenWorker, closeIdx, closed, wg, pc, q, cur,
                   delta, statVars, printed, executed, outcome, errLog>>

\* Line 128 with lines 213-215: done <- true meets the select's receive on
\* done; main leaves the loop and processCSV returns.
SignalDone ==
    /\ Alive /\ mainPc = "loop" /\ dispPc = "signal"
    /\ mainPc' = "after"
    /\ dispPc' = "exit"
    /\ doneCount' = doneCount + 1
    /\ UNCHANGED <<confVars, fate, spawned, pos, chosenWorker, closeIdx, closed, wg, pc, q, cur,
                   delta, statVars, printed, executed, outcome, errLog>>

\* Lines 222-238: sort, median, print the summary; main returns.
Report ==
    /\ Alive /\ mainPc = "after"
    /\ queryTimes' = SortAsc(queryTimes)
    /\ medianQueryTime' = Median(queryTimes')
    /\ printed' = Summary(queryTimes', totalQueryTime, minQueryTime, maxQueryTime,
                          medianQueryTime')
    /\ mainPc' = "reported"
    /\ UNCHANGED <<confVars, fate, dispVars, closed, wg, pc, q, cur, delta, minQueryTime,
                   maxQueryTime, totalQueryTime, executed, outcome, doneCount, errLog>>

\* Every goroutine is blocked for good: main on <-results (line 195) with no
\* worker left to send, processCSV on done <- true (line 128) with nobody
\* receiving.  The Go runtime aborts with "all goroutines are asleep -
\* deadlock!" when it detects this; when it does not (a pending timer of the
\* connection pool hides it) the process hangs in this state instead.
RuntimeDeadlock ==
    /\ Alive /\ mainPc = "first" /\ dispPc = "signal"
    /\ fate' = "deadlock"
    /\ UNCHANGED <<confVars, dispVars, closed, wg, pc, q, cur, delta, mainPc, statVars, printed,
                   executed, outcome, doneCount, errLog>>

Next ==
    \/ Spawn
    \/ ReadHeader
    \/ ReadRecord
    \/ \E w \in Workers : Dispatch(w)
    \/ CloseQueue
    \/ WaitWorkers
    \/ \E w \in Workers : QueryFail(w)
    \/ \E w \in Workers, d \in Latencies : QueryOk(w, d)
    \/ \E w \in Workers : WorkerExit(w)
    \/ \E w \in Workers : CollectFirst(w)
    \/ \E w \in Workers : Collect(w)
    \/ SignalDone
    \/ Report
    \/ RuntimeDeadlock

Spec == Init /\ [][Next]_vars

\* Lines 48-54: the query of worker w returns, one way or the other.
QueryReturn(w) == QueryFail(w) \/ \E d \in Latencies : QueryOk(w, d)

\* Every step of the program itself, given the set W of workers whose
\* queries return; the runtime's abort of a blocked process is left out.
Progress(W) ==
    \/ Spawn
    \/ ReadHeader
    \/ ReadRecord
    \/ \E w \in Workers : Dispatch(w)
    \/ CloseQueue
    \/ WaitWorkers
    \/ \E w \in W : QueryReturn(w)
    \/ \E w \in Workers : WorkerExit(w)
    \/ \E w \in Workers : CollectFirst(w)
    \/ \E w \in Workers : Collect(w)
    \/ SignalDone
    \/ Report

\* The program under the Go scheduler with every query returning: a
\* goroutine that can take a step eventually takes one.  Every run makes
\* finitely many steps, so one fairness condition on all steps together
\* lets no goroutine starve.
FairSpec == Spec /\ WF_vars(Progress(Workers))

\* The same, except that the queries of worker 0 need not return.
HungSpec == Spec /\ WF_vars(Progress(Workers \ {0}))

(* -------------------- the sort-and-median step alone -------------------- *)

\* Sample values for the sort-and-median step, in microseconds.
SampleValues == { 100, 200, 300, 400 }

\* Lines 195-212 applied to the samples s in the order received: the running
\* minimum, maximum and total.
RECURSIVE Collected(_)
Collected(s) ==
    IF Len(s) = 1 THEN [min |-> s[1], max |-> s[1], total |-> s[1]]
    ELSE LET p == Collected(SubSeq(s, 1, Len(s) - 1))
             r == s[Len(s)]
         IN  [min   |-> NextMin(p.min, p.max, r),
              max   |-> NextMax(p.min, p.max, r),
              total |-> p.total + r]

\* The state in which main leaves its loop (line 215) in a run with one
\* worker over a header and Len(s) rows of host "a" whose queries all
\* succeeded, taking s[1], s[2], ... microseconds.
AfterLoop(s) ==
    /\ input = <<[ok |-> TRUE, host |-> HeaderKey, start |-> 0, end |-> 0]>>
                   \o StampRanges([i \in 1 .. Len(s) |->
                                     [ok |-> TRUE, host |-> <<97>>, start |-> 0, end |-> 0]])
    /\ numWorkers = 1
    /\ intBits = 64
    /\ fate = "running"
    /\ dispPc = "exit"
    /\ spawned = 1
    /\ pos = Len(s) + 1
    /\ chosenWorker = 0
    /\ closeIdx = 1
    /\ closed = [w \in {0} |-> TRUE]
    /\ wg = 0
    /\ pc = [w \in {0} |-> "done"]
    /\ q = [w \in {0} |-> NoTask]
    /\ cur = [w \in {0} |-> 0]
    /\ delta = [w \in {0} |-> 0]
    /\ mainPc = "after"
    /\ queryTimes = s
    /\ minQueryTime = Collected(s).min
    /\ maxQueryTime = Collected(s).max
    /\ medianQueryTime = s[1]
    /\ totalQueryTime = Collected(s).total
    /\ printed = <<>>
    /\ executed = [w \in {0} |-> [i \in 1 .. Len(s) |-> i + 1]]
    /\ outcome = [i \in 1 .. Len(s) + 1 |->
                     IF i = 1 THEN [status |-> "none", latency |-> 0]
                     ELSE [status |-> "ok", latency |-> s[i - 1]]]
    /\ doneCount = 1
    /\ errLog = EmptyBag

MedianInit == \E s \in SeqsUpTo(SampleValues, MaxSamples) \ { <<>> } : AfterLoop(s)

MedianNext == Report

\* The sort-and-median step of main on every sequence of at most MaxSamples
\* samples.
MedianSpec == MedianInit /\ [][MedianNext]_vars

(* ------------------------- derived quantities --------------------------- *)

\* Rows whose query returned successfully.
Succeeded == { i \in 1 .. Len(input) : outcome[i].status = "ok" }

\* Rows whose query failed.
Failed == { i \in 1 .. Len(input) : outcome[i].status = "fail" }

\* The latencies of the successful queries, with multiplicity.
ProducedBag ==
    [v \in { outcome[i].latency : i \in Succeeded } |->
        Cardinality({ i \in Succeeded : outcome[i].latency = v })]

\* The elements of a sequence, with multiplicity.
BagOfSeq(s) ==
    [v \in { s[i] : i \in DOMAIN s } |-> Cardinality({ i \in DOMAIN s : s[i] = v })]

\* Rows worker w has invoked the query for.
ExecutedBy(w) == { executed[w][p] : p \in DOMAIN executed[w] }

(* ------------------------------- claims --------------------------------- *)

\* C1: whenever the summary has been printed, its query count equals the
\* number of rows whose query succeeded; the header (row 1) is never among
\* them and failed queries are not counted.
C1_CountConservation ==
    mainPc = "reported" =>
        /\ printed.count = Cardinality(Succeeded)
        /\ Succeeded \subseteq 2 .. Len(input)
        /\ Succeeded \cap Failed = {}

\* C1 witness: a printed summary of a two-worker run counting two samples
\* although three rows were queried, one of them failing.
C1_Witness ==
    /\ mainPc = "reported" /\ numWorkers = 2
    /\ printed.count = 2 /\ Cardinality(Failed) = 1
    /\ \A w \in Workers : executed[w] # <<>>

\* C2: once processCSV is at (or past) the send on done, no worker holds a
\* query or an unpublished sample, and the samples main has retained are
\* exactly the latencies the successful queries produced.
C2_NoSampleMissed ==
    dispPc \in {"signal", "exit"} =>
        /\ \A w \in Workers : pc[w] \notin {"query", "send"}
        /\ BagOfSeq(queryTimes) = ProducedBag

\* C2 witness: processCSV is blocked on the send on done while main is in
\* its select, after both workers of a two-worker run published samples.
C2_Witness ==
    /\ dispPc = "signal" /\ mainPc = "loop" /\ numWorkers = 2
    /\ \A w \in Workers : \E i \in ExecutedBy(w) : i \in Succeeded
    /\ Len(queryTimes) >= 2

\* C3: of two rows with the same hostname, the later one is queried only by
\* the worker that queried the earlier one, and only after it.
C3_PerKeyOrder ==
    \A i, j \in 2 .. Len(input) :
        (i < j /\ input[i].ok /\ input[j].ok /\ input[i].host = input[j].host) =>
            \A w \in Workers : \A pj \in DOMAIN executed[w] :
                executed[w][pj] = j =>
                    /\ \E pi \in 1 .. (pj - 1) : executed[w][pi] = i
                    /\ \A v \in Workers \ {w} : i \notin ExecutedBy(v)

\* C3 witness: in a two-worker run one worker has queried rows 2 and 4 of
\* one host in that order while the other worker queried row 3 in between.
C3_Witness ==
    /\ numWorkers = 2
    /\ \E w \in Workers :
          /\ executed[w] = <<2, 4>>
          /\ input[2].host = input[4].host
          /\ \E v \in Workers \ {w} : executed[v] = <<3>>

\* Rows handed to a worker, or about to be, each with the index chosen for it.
Routed ==
    UNION { { <<i, w>> : i \in ExecutedBy(w) } : w \in Workers }
        \cup (IF dispPc = "send" THEN { <<pos, chosenWorker>> } ELSE {})

\* C4 (as claimed): a run without a single successful sample still gets its
\* summary: when processCSV is ready to signal completion, the process is
\* running and main can take the signal.
C4_EmptyRunReports ==
    (dispPc = "signal" /\ Succeeded = {}) => (fate = "running" /\ ENABLED SignalDone)

\* C5: the send on done completes at most once; processCSV is at or past it
\* only when every task channel is closed and every worker has returned; and
\* main is past its loop only when the send has happened.
C5_SignalOnceAfterAll ==
    /\ doneCount <= 1
    /\ dispPc \in {"signal", "exit"} =>
          /\ wg = 0
          /\ \A w \in Workers : closed[w] /\ pc[w] = "done"
    /\ (doneCount = 1) <=> (dispPc = "exit")
    /\ mainPc \in {"after", "reported"} => doneCount = 1

\* C5 witness: the signal of a two-worker run has been taken by main.
C5_Witness == doneCount = 1 /\ numWorkers = 2 /\ mainPc = "after"

\* C6: rows with the same hostname are always given the same worker index,
\* whatever their position and range columns and whatever the workers have
\* done meanwhile.
C6_RoutingDeterministic ==
    \A r1, r2 \in Routed :
        input[r1[1]].host = input[r2[1]].host => r1[2] = r2[2]

\* C6 witness: in a two-worker run row 4 is about to be sent to the worker
\* that got row 2 of the same host, row 3 having gone to the other worker.
C6_Witness ==
    /\ numWorkers = 2 /\ dispPc = "send" /\ pos = 4
    /\ input[2].host = input[4].host
    /\ input[2].start # input[4].start
    /\ \E w \in Workers : <<2, w>> \in Routed /\ <<4, w>> \in Routed /\ <<3, 1 - w>> \in Routed

\* C7: a failed query leaves no sample (the samples retained or about to be
\* sent number the successful queries), and the step in which a query fails
\* puts its worker back on its task channel and changes nothing else: the
\* process keeps running, and the other workers, processCSV and main are
\* where they were.
C7_FailureIsolated ==
    /\ [](Len(queryTimes) + Cardinality({ w \in Workers : pc[w] = "send" })
            = Cardinality(Succeeded))
    /\ [][ \A w \in Workers :
              (pc[w] = "query" /\ outcome'[cur[w]].status = "fail") =>
                  /\ pc'[w] = "recv"
                  /\ fate' = "running"
                  /\ \A v \in Workers \ {w} : pc'[v] = pc[v]
                  /\ wg' = wg
                  /\ dispVars' = dispVars
                  /\ mainPc' = mainPc
                  /\ statVars' = statVars ]_vars

\* C7 witness: a two-worker run printed its summary although the first query
\* of some worker failed; that worker went on to a second, successful query.
C7_Witness ==
    /\ mainPc = "reported" /\ numWorkers = 2
    /\ \E w \in Workers :
          /\ Len(executed[w]) >= 2
          /\ outcome[executed[w][1]].status = "fail"
          /\ outcome[executed[w][2]].status = "ok"

\* C8: in a printed summary min <= median <= max, in microseconds and in the
\* printed milliseconds, and every retained sample lies between min and max.
C8_AggregateOrder ==
    mainPc = "reported" =>
        /\ minQueryTime <= medianQueryTime /\ medianQueryTime <= maxQueryTime
        /\ printed.min <= printed.median /\ printed.median <= printed.max
        /\ \A i \in DOMAIN queryTimes :
              minQueryTime <= queryTimes[i] /\ queryTimes[i] <= maxQueryTime

\* C8 witness: a summary over three samples, the largest collected first and
\* the smallest last, with min < median < max.
C8_Witness ==
    /\ mainPc = "reported" /\ Len(queryTimes) = 3
    /\ minQueryTime < medianQueryTime /\ medianQueryTime < maxQueryTime
    /\ \E w \in Workers : executed[w] = <<2, 3, 4>>
    /\ outcome[2].latency = maxQueryTime /\ outcome[4].latency = minQueryTime

\* Reference values the claims compare the program's results with; they are
\* computed from the outcome history, not the way main computes them.

\* The k-th smallest latency among the successful queries, by counting.
KthSmallest(k) ==
    CHOOSE v \in { outcome[i].latency : i \in Succeeded } :
        /\ Cardinality({ i \in Succeeded : outcome[i].latency < v }) < k
        /\ k <= Cardinality({ i \in Succeeded : outcome[i].latency <= v })

\* The median of the successful queries' latencies: the central value, or
\* the truncated mean of the two central values.
ExpectedMedian ==
    LET n == Cardinality(Succeeded)
    IN  IF n % 2 = 0 THEN (KthSmallest(n \div 2) + KthSmallest(n \div 2 + 1)) \div 2
        ELSE KthSmallest((n + 1) \div 2)

\* The sum of the successful queries' latencies over the rows in S.
RECURSIVE SumLatency(_)
SumLatency(S) ==
    IF S = {} THEN 0
    ELSE LET i == CHOOSE x \in S : TRUE
         IN  outcome[i].latency + SumLatency(S \ {i})

\* C9: the printed median is computed from the samples sorted ascending:
\* the retained samples are the collected ones in ascending order, and the
\* median is the central value for an odd count and the truncated mean of the
\* two central values for an even count, whatever order they arrived in;
\* 100,200,300,400 give 250 and 100,200,300 give 200.
C9_MedianFormula ==
    mainPc = "reported" =>
        /\ \A i \in 1 .. (Len(queryTimes) - 1) : queryTimes[i] <= queryTimes[i + 1]
        /\ BagOfSeq(queryTimes) = ProducedBag
        /\ medianQueryTime = ExpectedMedian
        /\ printed.median = ExpectedMedian \div 1000
        /\ queryTimes = <<100, 200, 300, 400>> => medianQueryTime = 250
        /\ queryTimes = <<100, 200, 300>> => medianQueryTime = 200

\* C9 witness: 400, 100, 300, 200 collected in that order, median 250.
C9_Witness ==
    /\ mainPc = "reported"
    /\ Len(input) = 5
    /\ <<outcome[2].latency, outcome[3].latency, outcome[4].latency, outcome[5].latency>>
           = <<400, 100, 300, 200>>
    /\ queryTimes = <<100, 200, 300, 400>>
    /\ medianQueryTime = 250

\* C10: the printed count, total, min, max and median are determined by the
\* input rows and what each row's query returned alone: they equal the
\* count, sum, least, greatest and median of the successful queries'
\* latencies for every pool size and interleaving.
C10_WorkerCountInvariance ==
    mainPc = "reported" =>
        /\ Len(queryTimes) = Cardinality(Succeeded)
        /\ totalQueryTime = SumLatency(Succeeded)
        /\ \A i \in Succeeded : minQueryTime <= outcome[i].latency
        /\ \E i \in Succeeded : minQueryTime = outcome[i].latency
        /\ \A i \in Succeeded : outcome[i].latency <= maxQueryTime
        /\ \E i \in Succeeded : maxQueryTime = outcome[i].latency
        /\ medianQueryTime = ExpectedMedian
        /\ printed = Summary(queryTimes, SumLatency(Succeeded), KthSmallest(1),
                             KthSmallest(Cardinality(Succeeded)), ExpectedMedian)

\* C10 witness: a two-worker summary over three successful rows whose
\* latencies are not in ascending input order, both workers having queried.
C10_Witness ==
    /\ mainPc = "reported" /\ numWorkers = 2
    /\ Succeeded = {2, 3, 4}
    /\ outcome[2].latency > outcome[3].latency /\ outcome[4].latency > outcome[3].latency
    /\ \A w \in Workers : executed[w] # <<>>

\* The input holds a row that cr.Read rejects.
HasBadRow == \E i \in 1 .. Len(input) : ~input[i].ok

\* The position of the first such row.
FirstBad == CHOOSE i \in 1 .. Len(input) : ~input[i].ok /\ \A j \in 1 .. (i - 1) : input[j].ok

\* C11: with a malformed row anywhere in the input no summary is ever
\* printed: processCSV never gets past that row (it never reaches end of
\* file, closes a queue or sends on done), main never leaves its loop, and
\* once the row has been read the process is dead by log.Fatalf, whatever
\* has been collected by then.
C11_MalformedIsFatal ==
    HasBadRow =>
        /\ printed = <<>>
        /\ mainPc \in {"first", "loop"}
        /\ doneCount = 0
        /\ pos < FirstBad
        /\ dispPc \in {"spawn", "header", "read", "send"}
        /\ \A w \in Workers : ~closed[w]
        /\ (dispPc = "read" /\ pos = FirstBad - 1 /\ fate = "running") =>
              ~ENABLED (ReadRecord /\ fate' # "fatal")

\* C11 witness: the process died on the malformed fourth row after main had
\* collected the samples of rows 2 and 3.
C11_Witness ==
    /\ fate = "fatal" /\ pos = 3 /\ Len(input) = 4
    /\ Len(queryTimes) = 2

\* C12: main is past its collection loop only when the send on done has
\* happened with every queue closed and every worker returned, and the only
\* step that takes main out of collecting is the receive on done in the
\* select, taken in that situation.
C12_LoopExitOnlyByDone ==
    /\ [](mainPc \in {"after", "reported"} =>
            /\ doneCount = 1
            /\ \A w \in Workers : closed[w] /\ pc[w] = "done")
    /\ [][ (mainPc \in {"first", "loop"} /\ mainPc' \notin {"first", "loop"}) =>
              /\ mainPc = "loop" /\ mainPc' = "after"
              /\ dispPc = "signal" /\ dispPc' = "exit"
              /\ doneCount' = doneCount + 1
              /\ statVars' = statVars
              /\ \A w \in Workers : closed[w] /\ pc[w] = "done" ]_vars

\* C12 witness: main has left the loop of a two-worker run after collecting
\* from both workers.
C12_Witness ==
    /\ mainPc = "after" /\ numWorkers = 2
    /\ \A w \in Workers : \E i \in ExecutedBy(w) : i \in Succeeded

\* C13: whenever main holds samples, minQueryTime is the least and
\* maxQueryTime the greatest of them.
C13_RunningMinMax ==
    queryTimes # <<>> =>
        /\ \A i \in DOMAIN queryTimes :
              minQueryTime <= queryTimes[i] /\ queryTimes[i] <= maxQueryTime
        /\ \E i \in DOMAIN queryTimes : queryTimes[i] = minQueryTime
        /\ \E i \in DOMAIN queryTimes : queryTimes[i] = maxQueryTime

\* C13 witness: in the loop after a first sample, a tie with it, and then a
\* new minimum.
C13_Witness ==
    /\ mainPc = "loop"
    /\ queryTimes = <<1201, 1201, 900>>
    /\ minQueryTime = 900 /\ maxQueryTime = 1201

\* Rows processCSV has handed to a worker: all it has consumed, less the
\* one it still holds or died on.
Handed ==
    2 .. (IF dispPc = "send" \/ fate = "panic" THEN pos - 1 ELSE pos)

\* ChosenWorker tabulated: the worker index of every hostname, for every
\* pool size and int width.
KeyRoute ==
    [k \in Keys |-> [n \in 1 .. MaxWorkers |-> [b \in IntWidths |->
        ChosenWorker([ok |-> TRUE, host |-> k, start |-> 0, end |-> 0], n, b)]]]

\* Rows some worker has invoked the query for.
ExecutedRows == UNION { ExecutedBy(w) : w \in Workers }

\* C14: the rows queried are exactly the rows handed over, each occurring
\* once in one worker's invocation log, that of the worker its hostname
\* hashes to, which holds that very task while it
\* queries; a worker has returned only with its channel closed, the whole
\* input handed over and every row routed to it queried to the end; and
\* when processCSV is past the read loop every row after the header has been
\* queried exactly once.
C14_ExactlyOnce ==
    /\ ExecutedRows = Handed
    /\ \A w \in Workers :
          /\ Cardinality(ExecutedBy(w)) = Len(executed[w])
          /\ \A v \in Workers \ {w} : ExecutedBy(v) \cap ExecutedBy(w) = {}
    /\ \A w \in Workers : \A i \in ExecutedBy(w) :
          w = KeyRoute[input[i].host][numWorkers][intBits]
    /\ \A w \in Workers :
          pc[w] \in {"query", "send"} =>
              /\ cur[w] = executed[w][Len(executed[w])]
              /\ q[w] = Task(input[cur[w]])
    /\ \A w \in Workers :
          pc[w] = "done" =>
              /\ closed[w]
              /\ Handed = 2 .. Len(input)
              /\ \A i \in ExecutedBy(w) : outcome[i].status # "none"
    /\ dispPc \in {"close", "wait", "signal", "exit"} =>
          ExecutedRows = 2 .. Len(input)

\* C14 witness: both workers of a two-worker run have returned, three rows
\* having been queried, two by one worker and one by the other.
C14_Witness ==
    /\ numWorkers = 2 /\ Len(input) = 4
    /\ \A w \in Workers : pc[w] = "done" /\ executed[w] # <<>>

\* C15: a queue is closed only when processCSV is past the read loop at end
\* of file with every row handed over; queues are closed one at a time, each
\* while still open, and stay closed; processCSV never holds a task for a
\* closed queue; past the close loop all queues are closed.
C15_CloseOnceAfterLast ==
    /\ [](/\ \A w \in Workers :
                closed[w] => /\ dispPc \in {"close", "wait", "signal", "exit"}
                             /\ pos = Len(input)
                             /\ Handed = 2 .. Len(input)
          /\ dispPc = "send" => ~closed[chosenWorker]
          /\ dispPc \in {"wait", "signal", "exit"} => \A w \in Workers : closed[w])
    /\ [][ closed' # closed =>
              /\ dispPc = "close"
              /\ ~closed[closeIdx]
              /\ closed' = [closed EXCEPT ![closeIdx] = TRUE]
              /\ closeIdx' = closeIdx + 1 ]_vars

\* C15 witness: both queues of a two-worker run are closed after three rows
\* were handed over, one worker still querying.
C15_Witness ==
    /\ numWorkers = 2 /\ dispPc = "wait" /\ Len(input) = 4
    /\ \A w \in Workers : closed[w]
    /\ \E w \in Workers : pc[w] = "query"

\* The input has a header and no row that cr.Read rejects.
WellFormed == Len(input) >= 1 /\ ~HasBadRow

\* The worker index line 109 computes for row i.
RouteOf(i) == ChosenWorker(input[i], numWorkers, intBits)

\* C16 (as claimed): on a well-formed input with a successful query the
\* run does not get stuck: until the summary is printed some step is always
\* possible.
C16_NeverStuck ==
    (WellFormed /\ Succeeded # {}) => (mainPc = "reported" \/ ENABLED Next)

\* C16 where int is 64 bits wide: on a well-formed input, with every query
\* returning and fair scheduling, the summary is eventually printed unless
\* no query at all succeeds.
C16_Terminates64 ==
    (WellFormed /\ intBits = 64) =>
        <>(mainPc = "reported" \/ (dispPc = "signal" /\ Succeeded = {}))

\* Worker 0 is in a query, in a live process over a well-formed input all of
\* whose rows hash to a worker of the pool.
Hung ==
    /\ fate = "running" /\ pc[0] = "query"
    /\ WellFormed
    /\ \A i \in 2 .. Len(input) : RouteOf(i) \in Workers

\* C17 (as claimed): if worker 0 stays in a query for ever, every row that
\* hashes to another worker is eventually queried.
C17_OnlyOwnSubsetBlocked ==
    <>[]Hung =>
        <>[](\A i \in 2 .. Len(input) : RouteOf(i) # 0 => i \in ExecutedRows)

\* C17 (amended): if worker 0 stays in a query for ever, every row that
\* hashes to another worker and is not behind a later row of worker 0 in the
\* input is eventually queried.
C17_BlockedBehindHung ==
    <>[]Hung =>
        <>[](Hung =>
               \A i \in 2 .. Len(input) :
                   (RouteOf(i) # 0 /\ \A j \in (cur[0] + 1) .. (i - 1) : RouteOf(j) # 0)
                       => i \in ExecutedRows)

\* C17 witness: worker 0 is in the query of row 2, worker 1 has been handed
\* row 3 since, and processCSV holds row 4 for worker 0.
C17_Witness ==
    /\ Hung /\ numWorkers = 2
    /\ executed[0] = <<2>> /\ executed[1] = <<3>>
    /\ dispPc = "send" /\ chosenWorker = 0 /\ pos = 4

\* C18 (as claimed): there is one log line per failed query, and every line
\* carries the worker id, the hostname of the task and the error.
C18_LogCarriesContext ==
    /\ BagCardinality(errLog) = Cardinality(Failed)
    /\ \A e \in BagToSet(errLog) : {"worker", "hostname", "err"} \subseteq DOMAIN e

\* C19 (as claimed): the worker index computed for a row lies in
\* 0 .. numWorkers - 1.
C19_IndexInRange == chosenWorker \in 0 .. (numWorkers - 1)

=============================================================================
